---- MODULE Spec2Model ----
(***************************************************************************)
(* MongoDBFetchProvider (src/src/opal_fetcher_mongodb/provider.py).        *)
(*                                                                         *)
(* One fetch invocation: the caller enters the provider's async context    *)
(* (__aenter__), _fetch_ is run, its result is handed to _process_, and    *)
(* the context is left (__aexit__).  _fetch_ is a coroutine: it issues its *)
(* query and is then suspended at each await, where the data-source client *)
(* delivers or raises, or the task is cancelled.  The client is the        *)
(* environment.                                                            *)
(*                                                                         *)
(* Optional[T] values are sequences of length at most one: None is <<>>    *)
(* and a value v is <<v>>.  Python dicts are functions from strings; the   *)
(* value a method returns is tagged "dict" or "list", since an empty       *)
(* Python dict and an empty Python list are different values.              *)
(***************************************************************************)
EXTENDS Integers, Sequences, FiniteSets, TLC

\* ------------------------------------------------------------- bounds

\* Longest result sequence the data source answers a query with.
MaxDocs == 2

\* ---------------------------------------------------------- universes

\* Field names of the documents in the collection.
Keys == {"a", "id"}

\* A value that cannot be a dict key: a list (or a sub-document).
Unhashable == {"[x]"}

\* Field values: strings, and for the field "id" also a list.
FieldValues(k) ==
    IF k = "id" THEN {"x", "y"} \cup Unhashable ELSE {"x"}

\* hash(value) succeeds.
Hashable(v) == v \notin Unhashable

\* A document: a mapping from some of the field names to values.
Docs ==
    UNION {{d \in [S -> UNION {FieldValues(k) : k \in S}] :
               \A k \in S : d[k] \in FieldValues(k)} : S \in SUBSET Keys}

\* Result sequences of the data source.
DocSeqs == UNION {[1..n -> Docs] : n \in 0..MaxDocs}

None == <<>>
Some(v) == <<v>>

NoError == "None"
\* Errors the data-source client raises: a query error reported by the
\* server, and a connectivity fault.
ClientErrors == {"OperationFailure", "AutoReconnect"}

\* What an await inside _fetch_ ends with: the client's answer, an error
\* of the client, or the cancellation of the task.
AwaitOutcomes == {"ok", "CancelledError"} \cup ClientErrors

EmptyDict == [k \in {} |-> "x"]

\* Keyword arguments a config's options hold for the client method.
OptionNames == {"hint", "projection"}

\* options: Optional[dict], None or a dict of keyword arguments, given here
\* by the set of its keys.
Options == {None} \cup {Some({o}) : o \in OptionNames}

\* projection: Optional[dict].
Projections == {None, Some("p")}

\* MongoDBFindOneParams: query, projection, options.
FindOneParams == [query : {"q"}, projection : Projections, options : Options]

\* MongoDBFindParams: query, projection, options.
FindParams == [query : {"q"}, projection : Projections, options : Options]

\* MongoDBAggregateParams: pipeline, options.
AggregateParams == [pipeline : {"p"}, options : Options]

\* MongoDBTransformParams: first and merge are Optional[bool], mapKey is
\* Optional[str].
TransformParams ==
    [first : {None, Some(FALSE), Some(TRUE)},
     mapKey : {None, Some("id")},
     merge : {None, Some(FALSE), Some(TRUE)}]

\* Names of databases and collections: the empty name, which the client
\* refuses, and a name it accepts.
DatabaseNames == {"", "db"}
CollectionNames == {"", "c"}

\* MongoDBFetcherConfig: database is None or a name, collection is a name,
\* and each of findOne, find, aggregate and transform is None or set.
Configs ==
    [database : {None} \cup {Some(n) : n \in DatabaseNames},
     collection : CollectionNames,
     findOne : {None} \cup {Some(p) : p \in FindOneParams},
     find : {None} \cup {Some(p) : p \in FindParams},
     aggregate : {None} \cup {Some(p) : p \in AggregateParams},
     transform : {None} \cup {Some(t) : t \in TransformParams}]

VARIABLES
    config,        \* self._event.config
    connection,    \* self._connection: "none", "open" or "closed"
    closes,        \* number of close() calls on the connection
    usedClosed,    \* the client was used on a connection that was not open
    pc,            \* position of the invocation: "init", "entered" (the
                   \* _fetch_ call is due), "awaiting" (_fetch_ is suspended),
                   \* "fetched", "processed", "failed", "done"
    fetchCalls,    \* number of _fetch_ calls made
    queries,       \* client methods called, in order
    resultSet,     \* documents the client has answered the query with
    materialized,  \* documents _fetch_ has read of them
    fault,         \* error the client raised in the _fetch_ call
    faultAt,       \* where it raised it: "call" or "drain"
    fetchRaised,   \* exception that left the _fetch_ call
    records,       \* value _fetch_ returned to the caller
    output,        \* value _process_ returned
    error,         \* exception that left the invocation's current stage
    log            \* warnings and errors logged

vars == <<config, connection, closes, usedClosed, pc, fetchCalls, queries,
          resultSet, materialized, fault, faultAt, fetchRaised, records,
          output, error, log>>

NoOutput == [kind |-> "none", val |-> <<>>]

\* ------------------------------------------------------ retry policy

\* RETRY_CONFIG, a class attribute of four entries: a random exponential
\* wait between attempts (wait_random_exponential called with no argument),
\* up to 10 attempts, another attempt unless an OperationFailure was
\* raised, the last exception raised again.  No method of the provider
\* reads it, and __init__ hands no retry config to the base class: _fetch_
\* is called once, and no sleep follows it.
RETRY_CONFIG ==
    [wait |-> [wait_random_exponential |-> <<>>],
     stop |-> [stop_after_attempt |-> 10],
     retry |-> [retry_unless_exception_type |-> "OperationFailure"],
     reraise |-> TRUE]

\* ---------------------------------------------------- _fetch_ helpers

\* defined_queries: how many of findOne, find, aggregate are set.
DefinedQueries(cfg) ==
    (IF cfg.findOne # None THEN 1 ELSE 0)
    + (IF cfg.find # None THEN 1 ELSE 0)
    + (IF cfg.aggregate # None THEN 1 ELSE 0)

\* The check written as "no query defined": several queries pass it.
MalformedWhenNone(cfg) == DefinedQueries(cfg) = 0

\* if defined_queries != 1: warn and return []
Malformed(cfg) == DefinedQueries(cfg) # 1

\* "selecting database and collection": self._connection[database] when a
\* database is named, then db[collection].  The client raises InvalidName
\* for an empty name, of a database or of a collection (with no database
\* named, self._connection[collection] is a database of that name).
Lookup(cfg) ==
    IF cfg.database # None /\ cfg.database[1] = ""
    THEN "InvalidName"
    ELSE IF cfg.collection = ""
         THEN "InvalidName"
         ELSE NoError

\* f(..., projection=projection, **options): a keyword that options holds
\* and the call also gives by name (explicit) raises TypeError as the call
\* is made, before the client method runs.  options is {} when the config
\* has none.
KeywordTwice(explicit, options) ==
    options # None /\ (options[1] \cap explicit) # {}

\* "define first option": transform.first, False when transform or first
\* is None.
First(cfg) ==
    IF cfg.transform # None
    THEN (IF cfg.transform[1].first = None
          THEN FALSE ELSE cfg.transform[1].first[1])
    ELSE FALSE

\* "define mapKey option": transform.mapKey, None when transform is None.
MapKey(cfg) ==
    IF cfg.transform # None THEN cfg.transform[1].mapKey ELSE None

\* "define merge option": transform.merge, False when transform or merge
\* is None.
Merge(cfg) ==
    IF cfg.transform # None
    THEN (IF cfg.transform[1].merge = None
          THEN FALSE ELSE cfg.transform[1].merge[1])
    ELSE FALSE

\* How a _fetch_ call ends: a value returned, or an exception raised, with
\* or without the two logger.error lines.
Returned(val) ==
    [kind |-> "return", val |-> val, exc |-> NoError, logged |-> FALSE]
Raised(exc, logged) ==
    [kind |-> "raise", val |-> <<>>, exc |-> exc, logged |-> logged]

\* An except clause that returns [] instead of raising.
ExceptClauseSwallow(exc) == Returned(<<>>)

\* try: ... except Exception as e: logger.error(...); raise e
\* CancelledError is not an Exception: it passes the clause unlogged.
ExceptClause(exc) ==
    IF exc = "CancelledError"
    THEN Raised(exc, FALSE)
    ELSE Raised(exc, TRUE)

\* findOne branch: document = await collection.find_one(...); [] when it is
\* None, [document] otherwise.
FindOneResult(document) ==
    IF document = None
    THEN Returned(<<>>)
    ELSE Returned(<<document[1]>>)

Min(a, b) == IF a < b THEN a ELSE b

\* to_list called without its length: every document is read.
ToListAll(batch, length) == batch

\* await cursor.to_list(length=1), first branch of find and aggregate: of
\* the documents the query produces, at most length are read and returned.
ToList(batch, length) == SubSeq(batch, 1, Min(length, Len(batch)))

\* One turn of "async for document in cursor": the cursor hands out its
\* next document, which is appended to documents, or is at its end (None)
\* and the loop is left.
AsyncFor(documents, next) ==
    IF next = None
    THEN [done |-> TRUE, documents |-> documents]
    ELSE [done |-> FALSE, documents |-> Append(documents, next[1])]

\* The logger.error line that names the operation of a client method.
OperationOf(method) ==
    IF method = "find_one" THEN "findOne query"
    ELSE IF method = "find" THEN "find query"
    ELSE "aggregation pipeline"

\* --------------------------------------------------- _process_ helpers

\* dict.update keeping the value already present (setdefault).
DictUpdateKeepFirst(d, r) ==
    [k \in DOMAIN d \cup DOMAIN r |-> IF k \in DOMAIN d THEN d[k] ELSE r[k]]

\* document.update(dict(record)): the record's keys are added, and a key
\* already present takes the record's value.
DictUpdate(d, r) ==
    [k \in DOMAIN d \cup DOMAIN r |-> IF k \in DOMAIN r THEN r[k] ELSE d[k]]

RECURSIVE MergeFrom(_, _, _)
\* for record in records (from index i on): document.update(dict(record))
MergeFrom(document, recs, i) ==
    IF i > Len(recs)
    THEN document
    ELSE MergeFrom(DictUpdate(document, recs[i]), recs, i + 1)

\* document = dict(record) in place of document.update(dict(record)).
MergeRecordsLastOnly(recs) ==
    IF recs = <<>> THEN EmptyDict ELSE recs[Len(recs)]

\* handle merge: document = {}; the records folded in order.
MergeRecords(recs) == MergeFrom(EmptyDict, recs, 1)

\* document[key] = value: TypeError when the key cannot be hashed.
DictSet(d, key, value) ==
    IF Hashable(key)
    THEN [raised |-> NoError,
          val |-> [k \in DOMAIN d \cup {key} |->
                      IF k = key THEN value ELSE d[k]]]
    ELSE [raised |-> "TypeError", val |-> d]

RECURSIVE MapFromSkipMissing(_, _, _, _)
\* record.get(mapKey) with the records that lack the field passed over.
MapFromSkipMissing(document, recs, mapKey, i) ==
    IF i > Len(recs)
    THEN [raised |-> NoError, val |-> document]
    ELSE IF mapKey \notin DOMAIN recs[i]
         THEN MapFromSkipMissing(document, recs, mapKey, i + 1)
         ELSE LET set == DictSet(document, recs[i][mapKey], recs[i])
              IN  IF set.raised # NoError
                  THEN [raised |-> set.raised, val |-> EmptyDict]
                  ELSE MapFromSkipMissing(set.val, recs, mapKey, i + 1)

RECURSIVE MapFrom(_, _, _, _)
\* for record in records (from index i on):
\*     document[record[mapKey]] = dict(record)
\* record[mapKey] raises KeyError when the record has no such field, and
\* the assignment raises TypeError when the field's value cannot be hashed.
MapFrom(document, recs, mapKey, i) ==
    IF i > Len(recs)
    THEN [raised |-> NoError, val |-> document]
    ELSE IF mapKey \notin DOMAIN recs[i]
         THEN [raised |-> "KeyError", val |-> EmptyDict]
         ELSE LET set == DictSet(document, recs[i][mapKey], recs[i])
              IN  IF set.raised # NoError
                  THEN [raised |-> set.raised, val |-> EmptyDict]
                  ELSE MapFrom(set.val, recs, mapKey, i + 1)

\* handle mapKey: document = {}; the records entered in order.
MapRecords(recs, mapKey) == MapFrom(EmptyDict, recs, mapKey, 1)

Dict(val) == [kind |-> "dict", val |-> val]
List(val) == [kind |-> "list", val |-> val]
ProcessReturn(out) == [raised |-> NoError, out |-> out]
ProcessRaise(exc) == [raised |-> exc, out |-> NoOutput]

\* if records and len(records) > 0 and records[0] is not None:
\*     dict(records[0])  else: {}
FirstOrEmpty(recs) ==
    IF Len(recs) > 0 THEN Dict(recs[1]) ELSE Dict(EmptyDict)

\* merge looked at before first.
TransformMergeFirst(cfg, recs) ==
    IF Merge(cfg)
    THEN ProcessReturn(Dict(MergeRecords(recs)))
    ELSE IF First(cfg)
         THEN ProcessReturn(FirstOrEmpty(recs))
         ELSE IF MapKey(cfg) # None
              THEN (LET m == MapRecords(recs, MapKey(cfg)[1])
                    IN  IF m.raised = NoError
                        THEN ProcessReturn(Dict(m.val))
                        ELSE ProcessRaise(m.raised))
              ELSE ProcessReturn(List(recs))

\* The transform of find and aggregate results: first, else merge, else
\* mapKey, else the list of the records.
Transform(cfg, recs) ==
    IF First(cfg)
    THEN ProcessReturn(FirstOrEmpty(recs))
    ELSE IF Merge(cfg)
         THEN ProcessReturn(Dict(MergeRecords(recs)))
         ELSE IF MapKey(cfg) # None
              THEN (LET m == MapRecords(recs, MapKey(cfg)[1])
                    IN  IF m.raised = NoError
                        THEN ProcessReturn(Dict(m.val))
                        ELSE ProcessRaise(m.raised))
              ELSE ProcessReturn(List(recs))

\* The findOne collapse left out: a findOne result is transformed as a find
\* result is.
ProcessResultNoCollapse(cfg, recs) == Transform(cfg, recs)

\* _process_: a findOne result collapses to one document whatever the
\* transform says; a find or aggregate result is transformed.
ProcessResult(cfg, recs) ==
    IF cfg.findOne # None
    THEN ProcessReturn(FirstOrEmpty(recs))
    ELSE Transform(cfg, recs)

\* ------------------------------------------------------------ actions

\* __init__: the event's config is one of the configs (a None config is
\* replaced by one with the empty collection name and no query set), and
\* there is no connection.
Init ==
    /\ config \in Configs
    /\ connection = "none"
    /\ closes = 0
    /\ usedClosed = FALSE
    /\ pc = "init"
    /\ fetchCalls = 0
    /\ queries = <<>>
    /\ resultSet = <<>>
    /\ materialized = 0
    /\ fault = NoError
    /\ faultAt = "none"
    /\ fetchRaised = NoError
    /\ records = <<>>
    /\ output = NoOutput
    /\ error = NoError
    /\ log = {}

\* __aenter__: the client is constructed from the event's url.  When the
\* constructor raises (an invalid url) the context is not entered, so
\* __aexit__ does not run.
AEnter ==
    /\ pc = "init"
    /\ \E valid \in BOOLEAN :
          IF valid
          THEN /\ connection' = "open"
               /\ pc' = "entered"
               /\ error' = error
          ELSE /\ connection' = connection
               /\ pc' = "done"
               /\ error' = "InvalidURI"
    /\ UNCHANGED <<config, closes, usedClosed, fetchCalls, queries,
                   resultSet, materialized, fault, faultAt, fetchRaised,
                   records, output, log>>

\* The logger.error line of a _fetch_ call that ended as res.
ErrorLines(method, res) ==
    IF res.kind = "raise" /\ res.logged
    THEN {<<"error", OperationOf(method), res.exc>>}
    ELSE {}

\* _fetch_ with a retry inside it: a client error other than
\* OperationFailure has the call made again.
FinishRetryTransient(res, lines, clientFault, at, docs, n) ==
    /\ fetchRaised' = res.exc
    /\ fault' = clientFault
    /\ faultAt' = at
    /\ log' = log \cup lines
    /\ records' = res.val
    /\ resultSet' = docs
    /\ materialized' = n
    /\ IF res.kind = "return"
       THEN pc' = "fetched" /\ error' = error
       ELSE IF res.exc \in ClientErrors \ {"OperationFailure"}
            THEN pc' = "entered" /\ error' = error
            ELSE pc' = "failed" /\ error' = res.exc

\* The _fetch_ call ends as res, having logged lines, the client having
\* answered with docs, of which n were read, or raised clientFault: its
\* value or its exception goes to the caller.
Finish(res, lines, clientFault, at, docs, n) ==
    /\ fetchRaised' = res.exc
    /\ fault' = clientFault
    /\ faultAt' = at
    /\ log' = log \cup lines
    /\ records' = res.val
    /\ resultSet' = docs
    /\ materialized' = n
    /\ IF res.kind = "return"
       THEN pc' = "fetched" /\ error' = error
       ELSE pc' = "failed" /\ error' = res.exc

\* _fetch_ with a config that does not set exactly one query: a warning,
\* and [] returned, without an await.  (The config is never None here:
\* __init__ replaces a None config by one with no query set, which this
\* case covers.)
FetchMalformed ==
    /\ pc = "entered"
    /\ Malformed(config)
    /\ fetchCalls' = fetchCalls + 1
    /\ Finish(Returned(<<>>),
              {<<"warning", "malformed fetcher config", NoError>>},
              NoError, "none", <<>>, 0)
    /\ UNCHANGED <<config, connection, closes, usedClosed, queries, output>>

\* _fetch_ with exactly one query set and a database or collection name
\* the client refuses: the lookup raises outside the try blocks, so the
\* error leaves _fetch_ unlogged and no client method is called.
FetchInvalidName ==
    /\ pc = "entered"
    /\ ~Malformed(config)
    /\ Lookup(config) # NoError
    /\ fetchCalls' = fetchCalls + 1
    /\ Finish(Raised(Lookup(config), FALSE), {}, NoError, "none", <<>>, 0)
    /\ UNCHANGED <<config, connection, closes, usedClosed, queries, output>>

\* _fetch_ whose call expression raises before the client method runs,
\* inside the try: the except clause logs and ends the call.
RaiseBeforeCall(method, exc) ==
    /\ fetchCalls' = fetchCalls + 1
    /\ Finish(ExceptClause(exc), ErrorLines(method, ExceptClause(exc)),
              NoError, "none", <<>>, 0)
    /\ UNCHANGED <<config, connection, closes, usedClosed, queries, output>>

\* _fetch_ up to its first await: the client method is called on the
\* connection, and the call is suspended.
Suspend(method) ==
    /\ fetchCalls' = fetchCalls + 1
    /\ queries' = Append(queries, method)
    /\ usedClosed' = (usedClosed \/ connection # "open")
    /\ resultSet' = <<>>
    /\ materialized' = 0
    /\ fault' = NoError
    /\ faultAt' = "none"
    /\ fetchRaised' = NoError
    /\ records' = <<>>
    /\ pc' = "awaiting"
    /\ UNCHANGED <<config, connection, closes, output, error, log>>

\* _fetch_ whose client method raises as it is called: the except clause
\* ends the call.
RaiseAtCall(method, exc) ==
    /\ fetchCalls' = fetchCalls + 1
    /\ queries' = Append(queries, method)
    /\ usedClosed' = (usedClosed \/ connection # "open")
    /\ Finish(ExceptClause(exc), ErrorLines(method, ExceptClause(exc)),
              exc, "call", <<>>, 0)
    /\ UNCHANGED <<config, connection, closes, output>>

\* _fetch_, findOne branch, to "await collection.find_one(query,
\* projection=projection, **options)": options that hold projection raise
\* TypeError as the call is made.
FetchFindOne ==
    /\ pc = "entered"
    /\ ~Malformed(config)
    /\ Lookup(config) = NoError
    /\ config.findOne # None
    /\ IF KeywordTwice({"projection"}, config.findOne[1].options)
       THEN RaiseBeforeCall("find_one", "TypeError")
       ELSE Suspend("find_one")

\* _fetch_, find branch, to its first await: collection.find(query,
\* projection=projection, **options), where options that hold projection
\* raise TypeError as the call is made.
FetchFind ==
    /\ pc = "entered"
    /\ ~Malformed(config)
    /\ Lookup(config) = NoError
    /\ config.findOne = None
    /\ config.find # None
    /\ IF KeywordTwice({"projection"}, config.find[1].options)
       THEN RaiseBeforeCall("find", "TypeError")
       ELSE \/ Suspend("find")
            \/ \E exc \in ClientErrors : RaiseAtCall("find", exc)

\* _fetch_, aggregate branch, to its first await:
\* collection.aggregate(pipeline, **options) gives no keyword by name, so
\* none is given twice.
FetchAggregate ==
    /\ pc = "entered"
    /\ ~Malformed(config)
    /\ Lookup(config) = NoError
    /\ config.findOne = None
    /\ config.find = None
    /\ config.aggregate # None
    /\ \/ Suspend("aggregate")
       \/ \E exc \in ClientErrors : RaiseAtCall("aggregate", exc)

\* An await of _fetch_ ends with an exception: an error of the client, or
\* the cancellation of the task.
AwaitRaises(exc, at) ==
    LET res == ExceptClause(exc)
    IN  Finish(res, ErrorLines(queries[Len(queries)], res),
               IF exc \in ClientErrors THEN exc ELSE NoError,
               IF exc \in ClientErrors THEN at ELSE "none",
               resultSet, materialized)

\* "await collection.find_one(...)" ends: the document or None, an error
\* of the client, or the cancellation of the task.
AwaitFindOne ==
    /\ pc = "awaiting"
    /\ queries[Len(queries)] = "find_one"
    /\ usedClosed' = (usedClosed \/ connection # "open")
    /\ \/ \E document \in {None} \cup {Some(d) : d \in Docs} :
             Finish(FindOneResult(document), {}, NoError, "none",
                    document, Len(document))
       \/ \E exc \in AwaitOutcomes \ {"ok"} : AwaitRaises(exc, "call")
    /\ UNCHANGED <<config, connection, closes, fetchCalls, queries, output>>

\* "await cursor.to_list(length=1)" ends, in the find or the aggregate
\* branch with first: the query produces batch, of which at most one
\* document is read and returned; or an error of the client, or the
\* cancellation of the task.
AwaitToList ==
    /\ pc = "awaiting"
    /\ queries[Len(queries)] \in {"find", "aggregate"}
    /\ First(config)
    /\ usedClosed' = (usedClosed \/ connection # "open")
    /\ \/ \E batch \in DocSeqs :
             Finish(Returned(ToList(batch, 1)), {}, NoError, "none",
                    batch, Len(ToList(batch, 1)))
       \/ \E exc \in AwaitOutcomes \ {"ok"} : AwaitRaises(exc, "drain")
    /\ UNCHANGED <<config, connection, closes, fetchCalls, queries, output>>

\* One turn of "async for document in cursor" ends, in the find or the
\* aggregate branch without first: the next document is read, or the
\* cursor is at its end and the documents read are returned; or an error
\* of the client, or the cancellation of the task.
ReadCursor ==
    /\ pc = "awaiting"
    /\ queries[Len(queries)] \in {"find", "aggregate"}
    /\ ~First(config)
    /\ usedClosed' = (usedClosed \/ connection # "open")
    /\ \/ \E next \in {None} \cup {Some(d) : d \in Docs} :
             /\ next # None => Len(resultSet) < MaxDocs
             /\ LET s == AsyncFor(resultSet, next)
                IN  IF s.done
                    THEN Finish(Returned(s.documents), {}, NoError, "none",
                                resultSet, materialized)
                    ELSE /\ resultSet' = s.documents
                         /\ materialized' = Len(s.documents)
                         /\ UNCHANGED <<pc, fault, faultAt, fetchRaised,
                                        records, error, log>>
       \/ \E exc \in AwaitOutcomes \ {"ok"} : AwaitRaises(exc, "drain")
    /\ UNCHANGED <<config, connection, closes, fetchCalls, queries, output>>

\* _process_ on the records _fetch_ returned: the result, or the exception
\* logged and raised again.
Process ==
    /\ pc = "fetched"
    /\ LET r == ProcessResult(config, records)
       IN  IF r.raised = NoError
           THEN /\ output' = r.out
                /\ pc' = "processed"
                /\ UNCHANGED <<error, log>>
           ELSE /\ error' = r.raised
                /\ log' = log \cup {<<"error", "processing records", r.raised>>}
                /\ pc' = "failed"
                /\ UNCHANGED output
    /\ UNCHANGED <<config, connection, closes, usedClosed, fetchCalls,
                   queries, resultSet, materialized, fault, faultAt,
                   fetchRaised, records>>

\* if self._connection is not None: self._connection.close()
CloseConnection ==
    IF connection # "none"
    THEN /\ connection' = "closed"
         /\ closes' = closes + 1
    ELSE UNCHANGED <<connection, closes>>

\* __aexit__ that closes only when the block ended without an exception.
AExitOnSuccessOnly ==
    /\ pc \in {"processed", "failed"}
    /\ IF error = NoError
       THEN CloseConnection
       ELSE UNCHANGED <<connection, closes>>
    /\ pc' = "done"
    /\ UNCHANGED <<config, usedClosed, fetchCalls, queries, resultSet,
                   materialized, fault, faultAt, fetchRaised, records,
                   output, error, log>>

\* __aexit__ as the context is left, with or without an exception: closes
\* the connection when there is one, and lets the exception pass.
AExit ==
    /\ pc \in {"processed", "failed"}
    /\ CloseConnection
    /\ pc' = "done"
    /\ UNCHANGED <<config, usedClosed, fetchCalls, queries, resultSet,
                   materialized, fault, faultAt, fetchRaised, records,
                   output, error, log>>

Next ==
    \/ AEnter
    \/ FetchMalformed
    \/ FetchInvalidName
    \/ FetchFindOne
    \/ FetchFind
    \/ FetchAggregate
    \/ AwaitFindOne
    \/ AwaitToList
    \/ ReadCursor
    \/ Process
    \/ AExit

Spec == Init /\ [][Next]_vars

\* The configs as _process_ reads them: findOne and transform, each of any
\* value; what it does not read is held at one value.
ProcessConfigs ==
    {c \in Configs :
        /\ c.database = None
        /\ c.collection = "c"
        /\ \A q \in {"findOne", "find"} :
              c[q] # None => (c[q][1].projection = None /\ c[q][1].options = None)
        /\ c.aggregate # None => c.aggregate[1].options = None}

\* _process_ on its own: it is given any list of documents, under any
\* config, by a caller that has entered the context.
InitProcess ==
    /\ config \in ProcessConfigs
    /\ records \in DocSeqs
    /\ resultSet = records
    /\ connection = "open"
    /\ closes = 0
    /\ usedClosed = FALSE
    /\ pc = "fetched"
    /\ fetchCalls = 0
    /\ queries = <<>>
    /\ materialized = 0
    /\ fault = NoError
    /\ faultAt = "none"
    /\ fetchRaised = NoError
    /\ output = NoOutput
    /\ error = NoError
    /\ log = {}

NextProcess ==
    \/ Process
    \/ AExit

SpecProcess == InitProcess /\ [][NextProcess]_vars

\* ------------------------------------------------------------- claims

\* The config's transform flags as they are written in it.
FlagFirst == config.transform # None /\ config.transform[1].first = Some(TRUE)
FlagMerge == config.transform # None /\ config.transform[1].merge = Some(TRUE)
FlagMapKey == config.transform # None /\ config.transform[1].mapKey # None
TheMapKey == config.transform[1].mapKey[1]

QueriesSet == {q \in {"findOne", "find", "aggregate"} : config[q] # None}
ExactlyOneQuerySet == Cardinality(QueriesSet) = 1
FindOneSelected == QueriesSet = {"findOne"}
CursorSelected == QueriesSet = {"find"} \/ QueriesSet = {"aggregate"}

\* _fetch_ returned to its caller and _process_ has run on what it returned.
ProcessRan ==
    /\ pc \in {"processed", "failed", "done"}
    /\ fetchRaised = NoError
    /\ error \in {NoError, "KeyError", "TypeError"}
    /\ error = NoError => output # NoOutput
ProcessReturned == ProcessRan /\ error = NoError
ProcessRaised == ProcessRan /\ error # NoError

\* The client method each query field is run by.
MethodOf(q) ==
    IF q = "findOne" THEN "find_one" ELSE q

\* The last document of seq, by index, that satisfies P.
LastIndex(seq, P(_)) ==
    CHOOSE i \in 1..Len(seq) :
        /\ P(seq[i])
        /\ \A j \in (i + 1)..Len(seq) : ~P(seq[j])

\* The client accepts the names of the config: none of them is empty.
NamesAccepted ==
    /\ config.collection # ""
    /\ config.database # None => config.database[1] # ""

\* The options of the findOne or find query that is set hold projection,
\* which the call of find_one and of find also gives by name.
OptionsRepeatProjection ==
    \E q \in QueriesSet \cap {"findOne", "find"} :
        /\ config[q][1].options # None
        /\ "projection" \in config[q][1].options[1]

\* C1 as it is stated: _fetch_ executes a query iff exactly one of findOne,
\* find, aggregate is set: then the _fetch_ call calls the one client
\* method of the query that is set; with none or several set no client
\* method is called, [] is returned and _fetch_ raises nothing.
C1_QueryIffExactlyOneSet ==
    fetchCalls > 0 =>
        IF ExactlyOneQuerySet
        THEN /\ Len(queries) = fetchCalls
             /\ \A i \in 1..Len(queries) :
                    \E q \in QueriesSet : queries[i] = MethodOf(q)
        ELSE /\ queries = <<>>
             /\ records = <<>>
             /\ fetchRaised = NoError

\* C1, amended: _fetch_ accepts the config iff exactly one of findOne, find,
\* aggregate is set.  It then calls the one client method of the query that
\* is set, unless the call cannot be made: with a database or collection
\* name the client refuses the lookup raises InvalidName, unlogged; else
\* with findOne or find options that hold projection the call expression
\* raises TypeError, logged under the operation; either way no client
\* method is called.  With none or several set a warning is logged, no
\* client method is called, [] is returned and nothing is raised.
C1_QueryIffOneSetAndCallable ==
    fetchCalls > 0 =>
        IF ExactlyOneQuerySet
        THEN /\ <<"warning", "malformed fetcher config", NoError>> \notin log
             /\ IF ~NamesAccepted
                THEN /\ queries = <<>>
                     /\ fetchRaised = "InvalidName"
                     /\ pc \in {"failed", "done"}
                     /\ error = "InvalidName"
                     /\ records = <<>>
                     /\ log = {}
                ELSE IF OptionsRepeatProjection
                     THEN /\ queries = <<>>
                          /\ fetchRaised = "TypeError"
                          /\ pc \in {"failed", "done"}
                          /\ error = "TypeError"
                          /\ records = <<>>
                          /\ log = {<<"error",
                                      OperationOf(MethodOf(CHOOSE q \in QueriesSet : TRUE)),
                                      "TypeError">>}
                     ELSE /\ Len(queries) = fetchCalls
                          /\ \A i \in 1..Len(queries) :
                                 \E q \in QueriesSet : queries[i] = MethodOf(q)
        ELSE /\ queries = <<>>
             /\ records = <<>>
             /\ fetchRaised = NoError
             /\ fault = NoError
             /\ pc \in {"fetched", "processed", "done"}
             /\ error = NoError
             /\ <<"warning", "malformed fetcher config", NoError>> \in log

C1_Witness ==
    /\ config.find # None
    /\ config.findOne = None
    /\ config.aggregate = None
    /\ config.database = None
    /\ config.collection = ""
    /\ pc = "failed"
    /\ fetchCalls = 1
    /\ queries = <<>>
    /\ error = "InvalidName"
    /\ log = {}

\* C2: an error the client raises during a query, from the call or while
\* the cursor is read (after any number of documents), leaves _fetch_ as
\* that error and is logged under the query's operation; it is never
\* returned as a value and no other error stands in for it; and a query
\* that produces no document returns [] without an error.  What else
\* leaves _fetch_ is no error of a running query: the cancellation of the
\* task, and InvalidName and TypeError raised before the client method is
\* called.
C2_ClientErrorReraised ==
    /\ fault # NoError =>
          /\ fetchRaised = fault
          /\ queries # <<>>
          /\ <<"error", OperationOf(queries[Len(queries)]), fault>> \in log
          /\ pc \in {"failed", "done"}
          /\ error = fault
          /\ records = <<>>
          /\ output = NoOutput
    /\ fetchRaised \in ClientErrors => fault = fetchRaised
    /\ fetchRaised \in ClientErrors \cup {NoError, "CancelledError",
                                         "InvalidName", "TypeError"}
    /\ fetchRaised \in {"InvalidName", "TypeError"} =>
          (queries = <<>> /\ error = fetchRaised)
    /\ fetchRaised = "CancelledError" => (queries # <<>> /\ log = {})
    /\ (pc \in {"failed", "done"} /\ error \in ClientErrors) => error = fault
    /\ (pc = "fetched" /\ resultSet = <<>>) =>
          /\ records = <<>>
          /\ fetchRaised = NoError
          /\ error = NoError

C2_Witness ==
    /\ pc = "failed"
    /\ queries = <<"aggregate">>
    /\ fault = "AutoReconnect"
    /\ faultAt = "drain"
    /\ materialized = 1
    /\ fetchRaised = "AutoReconnect"
    /\ error = "AutoReconnect"

\* C3: one fetch invocation calls _fetch_ once, which issues at most one
\* query, and exactly one when a result is fetched for a config with one
\* query set; either kind of client error, an OperationFailure or a
\* connectivity fault, ends the fetch with that error at once, logged the
\* same way, without the query being issued again.
C3_OneQueryPerInvocation ==
    /\ fetchCalls <= 1
    /\ Len(queries) <= 1
    /\ (ExactlyOneQuerySet /\ pc \in {"awaiting", "fetched", "processed"}) =>
          Len(queries) = 1
    /\ fault \in ClientErrors =>
          /\ pc \in {"failed", "done"}
          /\ error = fault
          /\ Len(queries) = 1
          /\ log = {<<"error", OperationOf(queries[1]), fault>>}

C3_Witness ==
    /\ pc = "failed"
    /\ fault = "AutoReconnect"
    /\ error = "AutoReconnect"
    /\ fetchCalls = 1
    /\ queries = <<"find">>
    /\ materialized = 1

\* C4: the connection is opened by __aenter__ and stays open while the
\* invocation is inside the context; every way out of the context closes
\* it, once; the client is never used on a connection that is not open.
C4_ConnectionScoped ==
    /\ pc = "init" => connection = "none"
    /\ pc \in {"entered", "awaiting", "fetched", "processed", "failed"} =>
          connection = "open" /\ closes = 0
    /\ pc = "done" =>
          /\ connection # "open"
          /\ closes = (IF connection = "closed" THEN 1 ELSE 0)
          /\ connection = "none" <=> error = "InvalidURI"
    /\ closes <= 1
    /\ ~usedClosed

C4_Witness ==
    /\ pc = "done"
    /\ error = "KeyError"
    /\ connection = "closed"
    /\ closes = 1

\* C5: with findOne set, what _process_ returns is one dict whatever the
\* transform says: {} when the query matched nothing, the matched document
\* otherwise; _process_ does not fail.
C5_FindOneSingleMapping ==
    config.findOne # None =>
        /\ ~ProcessRaised
        /\ ProcessReturned =>
              /\ output.kind = "dict"
              /\ output.val = (IF resultSet = <<>> THEN EmptyDict
                               ELSE resultSet[1])

C5_Witness ==
    /\ FindOneSelected
    /\ ~FlagFirst
    /\ FlagMerge
    /\ FlagMapKey
    /\ ProcessReturned
    /\ queries = <<"find_one">>
    /\ resultSet # <<>>
    /\ DOMAIN resultSet[1] = Keys
    /\ output = Dict(resultSet[1])

\* C6: without findOne, _process_ applies the one transform that the order
\* first, merge, mapKey, default selects.
C6_TransformPrecedence ==
    (config.findOne = None /\ ProcessRan) =>
        IF FlagFirst
        THEN output = Dict(IF records = <<>> THEN EmptyDict ELSE records[1])
        ELSE IF FlagMerge
             THEN output = Dict(MergeRecords(records))
             ELSE IF FlagMapKey
                  THEN IF MapRecords(records, TheMapKey).raised = NoError
                       THEN output = Dict(MapRecords(records, TheMapKey).val)
                       ELSE ProcessRaised
                  ELSE output = List(records)

C6_Witness ==
    /\ config.findOne = None
    /\ FlagFirst
    /\ FlagMerge
    /\ FlagMapKey
    /\ Len(records) = 2
    /\ DOMAIN records[1] = {"a"}
    /\ DOMAIN records[2] = {"id"}
    /\ ProcessReturned
    /\ output = Dict(records[1])

\* C7: find or aggregate with first=true reads at most one document from
\* the cursor, and the output is the first document the query produces, or
\* {} when it produces none.
C7_FirstShortCircuit ==
    (CursorSelected /\ FlagFirst) =>
        /\ materialized <= 1
        /\ Len(records) <= 1
        /\ ~ProcessRaised
        /\ ProcessReturned =>
              output = Dict(IF resultSet = <<>> THEN EmptyDict
                            ELSE resultSet[1])

C7_Witness ==
    /\ CursorSelected
    /\ FlagFirst
    /\ Len(resultSet) = 2
    /\ resultSet[1] # resultSet[2]
    /\ materialized = 1
    /\ ProcessReturned
    /\ output = Dict(resultSet[1])

\* C8: with merge selected the output is one dict whose keys are the keys
\* of all the documents, each with the value it has in the last document
\* that has it; no document gives {}.
C8_MergeLastWins ==
    (CursorSelected /\ ~FlagFirst /\ FlagMerge) =>
        /\ ~ProcessRaised
        /\ ProcessReturned =>
              /\ output.kind = "dict"
              /\ DOMAIN output.val =
                    UNION {DOMAIN resultSet[i] : i \in 1..Len(resultSet)}
              /\ \A k \in DOMAIN output.val :
                    LET Has(d) == k \in DOMAIN d
                    IN  output.val[k] = resultSet[LastIndex(resultSet, Has)][k]
              /\ resultSet = <<>> => output.val = EmptyDict

C8_Witness ==
    /\ CursorSelected
    /\ ~FlagFirst
    /\ FlagMerge
    /\ ProcessReturned
    /\ resultSet = <<[a |-> "x", id |-> "x"], [id |-> "y"]>>
    /\ output = Dict([a |-> "x", id |-> "y"])

\* C9 as it is stated: with mapKey selected, when every document has the
\* field the output maps each value of the field to the last document that
\* has that value; when a document lacks the field _process_ logs and
\* raises KeyError and returns nothing.
C9_MapKeyOrKeyError ==
    (CursorSelected /\ ~FlagFirst /\ ~FlagMerge /\ FlagMapKey /\ ProcessRan) =>
        IF \A i \in 1..Len(resultSet) : TheMapKey \in DOMAIN resultSet[i]
        THEN /\ ProcessReturned
             /\ output.kind = "dict"
             /\ DOMAIN output.val =
                   {resultSet[i][TheMapKey] : i \in 1..Len(resultSet)}
             /\ \A v \in DOMAIN output.val :
                   LET Keyed(d) == d[TheMapKey] = v
                   IN  output.val[v] = resultSet[LastIndex(resultSet, Keyed)]
        ELSE /\ error = "KeyError"
             /\ output = NoOutput
             /\ <<"error", "processing records", "KeyError">> \in log

\* The documents, by index, that cannot be entered under the field key: the
\* field is missing, or its value cannot be a dict key.
NotKeyable(seq, key) ==
    {i \in 1..Len(seq) :
        \/ key \notin DOMAIN seq[i]
        \/ ~Hashable(seq[i][key])}

\* C9, amended: with mapKey selected, when every document has the field
\* with a value that can be a dict key, the output maps each value of the
\* field to the last document that has that value; otherwise _process_
\* fails at the first document that cannot be entered, with KeyError when
\* the field is missing and TypeError when its value cannot be a key; the
\* error is logged and raised, and nothing is returned.
C9_MapKeyOrLookupError ==
    (CursorSelected /\ ~FlagFirst /\ ~FlagMerge /\ FlagMapKey /\ ProcessRan) =>
        IF NotKeyable(resultSet, TheMapKey) = {}
        THEN /\ ProcessReturned
             /\ output.kind = "dict"
             /\ DOMAIN output.val =
                   {resultSet[i][TheMapKey] : i \in 1..Len(resultSet)}
             /\ \A v \in DOMAIN output.val :
                   LET Keyed(d) == d[TheMapKey] = v
                   IN  output.val[v] = resultSet[LastIndex(resultSet, Keyed)]
        ELSE LET i == CHOOSE n \in NotKeyable(resultSet, TheMapKey) :
                          \A m \in NotKeyable(resultSet, TheMapKey) : n <= m
             IN  /\ error = (IF TheMapKey \notin DOMAIN resultSet[i]
                             THEN "KeyError" ELSE "TypeError")
                 /\ output = NoOutput
                 /\ <<"error", "processing records", error>> \in log

C9_Witness ==
    /\ CursorSelected
    /\ ~FlagFirst
    /\ ~FlagMerge
    /\ FlagMapKey
    /\ Len(resultSet) = 2
    /\ "id" \in DOMAIN resultSet[1]
    /\ Hashable(resultSet[1]["id"])
    /\ "id" \in DOMAIN resultSet[2]
    /\ ~Hashable(resultSet[2]["id"])
    /\ ProcessRan
    /\ error = "TypeError"
    /\ output = NoOutput

\* C10: on the merge path every key of every document is a key of the
\* output; on the mapKey path every document's value of the field is a key
\* of the output, and every document is in the output whole unless a later
\* document with the same value of the field replaced it.
C10_NoSilentFieldDrops ==
    (CursorSelected /\ ~FlagFirst /\ ProcessReturned) =>
        IF FlagMerge
        THEN \A i \in 1..Len(resultSet) :
                \A k \in DOMAIN resultSet[i] : k \in DOMAIN output.val
        ELSE FlagMapKey =>
                \A i \in 1..Len(resultSet) :
                    /\ resultSet[i][TheMapKey] \in DOMAIN output.val
                    /\ \/ output.val[resultSet[i][TheMapKey]] = resultSet[i]
                       \/ \E j \in (i + 1)..Len(resultSet) :
                             resultSet[j][TheMapKey] = resultSet[i][TheMapKey]

C10_Witness ==
    /\ CursorSelected
    /\ ~FlagFirst
    /\ FlagMerge
    /\ ProcessReturned
    /\ Len(resultSet) = 2
    /\ DOMAIN resultSet[1] = {"a"}
    /\ DOMAIN resultSet[2] = {"id"}
    /\ DOMAIN output.val = {"a", "id"}

====
